---- MODULE Spec2Model ----
(***************************************************************************)
(* GitMonitor: the daemon of src/application.  One controller task         *)
(* (async_main) and one repo_worker task per credential entry share an     *)
(* AppState behind a tokio Mutex; set_safe_directory is serialised by      *)
(* SAFE_DIR_LOCK; pull_updates is the retry loop of pull.rs.               *)
(*                                                                         *)
(* AppState is projected on the fields the properties read: status,        *)
(* event_counter and error_log.  An entry of the error log is a record     *)
(* [w |-> worker, n |-> the number of the failure in recording order].     *)
(***************************************************************************)
EXTENDS Integers, Sequences, FiniteSets, TLC

\* ---------------------------------------------------------------- bounds
\* Cycles a worker may start: in Spec, in CycleSpec and in FairSpec.
MaxCycles == 1
MaxLogCycles == 3
MaxFairCycles == 2
\* Values of each of the two parts of a commit identifier in AheadSpec.
MaxIdPart == 3

\* ------------------------------------------------------ program constants
error_array_max_size == 5
MAX_RETRIES == 3
RETRY_DELAY_SECS == 3

Workers == {1, 2}

\* Holders of a mutex.
Free == <<>>
ByController == <<"async_main">>
ByWorker(w) == <<"repo_worker", w>>

\* Commit identifiers: <<first 8 characters, remaining characters>>.
Commits == {<<1, 1>>, <<1, 2>>}
NoCommit == <<0, 0>>

NoFile == [status |-> "NoFile", event_counter |-> 0, error_log |-> <<>>]
\* The state file a previous run of the daemon left behind.
PreviousRun ==
    [status |-> "Stopped", event_counter |-> 2, error_log |-> <<[w |-> 0, n |-> 0]>>]

VARIABLES
    state,        \* Arc<Mutex<AppState>>: the in-memory AppState
    persisted,    \* the state file (what update_state last wrote)
    stateLock,    \* holder of the AppState mutex: Free, Controller or a worker
    safeLock,     \* holder of SAFE_DIR_LOCK
    safeDirs,     \* git config --global safe.directory: sequence of paths
    ctl,          \* position of async_main
    newState,     \* async_main's local new_state during a reload
    reloadPermit, \* Notify permit of `reload`
    exitPermit,   \* Notify permit of `exit_graceful`
    ctrlcReady,   \* the select!'s ctrl_c() future has seen a SIGINT
    exit,         \* "running", or how the process ended: "graceful", "config", "creds"
    pc,           \* position of each repo_worker
    safeSite,     \* call site of the worker's set_safe_directory
    pathExists,   \* the target's local clone exists (Repository::open succeeds)
    localHead,    \* git rev-parse HEAD
    remoteHead,   \* git rev-parse origin/<branch>
    result,       \* outcome of the worker's current cycle
    lastUpToDate, \* the worker's previous cycle ended UpToDate
    ops,          \* git operations the worker ran in its current cycle
    cycle,        \* number of cycles each worker has started
    budget,       \* number of cycles each worker may start (the bound of the run)
    failSeq,      \* number of failures recorded so far
    okCycles,     \* successful fold-ins since the AppState was generated
    intPending,   \* a SIGINT was delivered and exit_graceful not yet notified for it
    listingFails, \* the listing of safe.directory may fail though entries exist (per run)
    pullPc,       \* position inside pull_updates
    retries,      \* pull_updates: retries
    errors,       \* pull_updates: error_array (kinds, in push order)
    attempts,     \* outcomes of the pull attempts made, in order
    delays,       \* number of RETRY_DELAY_SECS sleeps taken
    remedies,     \* number of safe-directory remediations run
    pullResult,   \* value pull_updates returned
    local_stdout, \* is_remote_ahead: local.stdout (git rev-parse HEAD)
    remote_stdout,\* is_remote_ahead: remote.stdout (git rev-parse origin/<branch>)
    remote_ahead  \* what is_remote_ahead returned

daemonVars ==
    <<state, persisted, stateLock, safeLock, safeDirs, ctl, newState, reloadPermit,
      exitPermit, ctrlcReady, exit, pc, safeSite, pathExists,
      localHead, remoteHead, result, lastUpToDate, ops, cycle, budget, failSeq, okCycles,
      intPending, listingFails>>
pullVars == <<pullPc, retries, errors, attempts, delays, remedies, pullResult>>
aheadVars == <<local_stdout, remote_stdout, remote_ahead>>
vars == <<daemonVars, pullVars, aheadVars>>

ctlVars == <<ctl, newState, reloadPermit, exitPermit, ctrlcReady, exit>>
workerVars ==
    <<pc, safeSite, pathExists, localHead, remoteHead, result, lastUpToDate, ops, cycle>>
repoVars == <<pathExists, localHead, remoteHead>>

\* ------------------------------------------------------------- AppState
Fresh == [status |-> "Starting", event_counter |-> 0, error_log |-> <<>>]

\* Vec::truncate(len): keeps the first len elements.
truncate(v, len) == IF Len(v) > len THEN SubSeq(v, 1, len) ELSE v

\* update_state_wrapper's bounding of the error log (the value it then saves).
update_state_wrapper(s) ==
    IF Len(s.error_log) > error_array_max_size
    THEN [s EXCEPT !.error_log = truncate(@, error_array_max_size)]
    ELSE s

\* log_error: push the error on the log (the value it then saves).
log_error(s, err) == [s EXCEPT !.error_log = Append(@, err)]

\* generate_state: the loaded state with counter and log reset, or a fresh one.
generate_state(file) ==
    IF file = NoFile
    THEN Fresh
    ELSE [file EXCEPT !.event_counter = 0, !.error_log = <<>>]

Running == exit = "running"

\* The code the process exits with: std::process::exit(0) in get_config and in
\* the graceful-exit branch, std::process::exit(100) when the credentials fail.
exit_code(how) ==
    CASE how = "graceful" -> 0
      [] how = "config" -> 0
      [] how = "creds" -> 100

\* ------------------------------------------------------------------ Init
PullIdle ==
    /\ pullPc = "idle"
    /\ retries = 0
    /\ errors = <<>>
    /\ attempts = <<>>
    /\ delays = 0
    /\ remedies = 0
    /\ pullResult = "none"

AheadIdle ==
    /\ local_stdout = <<>>
    /\ remote_stdout = <<>>
    /\ remote_ahead = "none"

\* The process at its start.  The clones of the targets exist or not; an existing
\* clone is at some commit, its remote-tracking branch at the same one.
BootDaemon(cycles, faulty) ==
    /\ state = NoFile
    /\ persisted \in {NoFile, PreviousRun}
    /\ stateLock = Free
    /\ safeLock = Free
    /\ safeDirs = <<>>
    /\ ctl = "load_config"
    /\ newState = NoFile
    /\ reloadPermit = FALSE
    /\ exitPermit = FALSE
    /\ ctrlcReady = FALSE
    /\ exit = "running"
    /\ pc = [w \in Workers |-> "unspawned"]
    /\ safeSite = [w \in Workers |-> "cycle"]
    /\ pathExists \in [Workers -> BOOLEAN]
    /\ localHead = [w \in Workers |-> IF pathExists[w] THEN <<1, 1>> ELSE NoCommit]
    /\ remoteHead = localHead
    /\ result = [w \in Workers |-> "None"]
    /\ lastUpToDate = [w \in Workers |-> FALSE]
    /\ ops = [w \in Workers |-> <<>>]
    /\ cycle = [w \in Workers |-> 0]
    /\ budget = cycles
    /\ listingFails = faulty
    /\ failSeq = 0
    /\ okCycles = 0
    /\ intPending = FALSE

Boot(cycles, faulty) == BootDaemon(cycles, faulty) /\ PullIdle /\ AheadIdle

Init == Boot([w \in Workers |-> MaxCycles], FALSE)

\* ------------------------------------------------- set_safe_directory
Registered(path) == \E i \in 1..Len(safeDirs) : safeDirs[i] = path

\* A set_safe_directory that does not wait for SAFE_DIR_LOCK.
safe_dir_lock_ignored == TRUE

\* SAFE_DIR_LOCK.lock().await
safe_dir_lock_free == safeLock = Free

\* Where set_safe_directory returns to, and what the caller makes of its result:
\* repo_worker only logs an error, handle_new_repo propagates it with `?`.
SafeReturn(w, ok) ==
    /\ safeLock' = Free
    /\ IF safeSite[w] = "cycle"
       THEN /\ pc' = [pc EXCEPT ![w] = "open"]
            /\ UNCHANGED result
            /\ ops' = [ops EXCEPT ![w] = Append(@, "ensure_safe")]
       ELSE /\ pc' = [pc EXCEPT ![w] = IF ok THEN "new_checkout" ELSE "reporting"]
            /\ result' = [result EXCEPT ![w] = IF ok THEN @ ELSE "Failed"]
            /\ ops' = [ops EXCEPT ![w] = Append(@, "ensure_safe")]

SafeLock(w) ==
    /\ Running
    /\ pc[w] = "safe_lock"
    /\ safe_dir_lock_free
    /\ safeLock' = ByWorker(w)
    /\ pc' = [pc EXCEPT ![w] = "safe_check"]
    /\ UNCHANGED <<state, persisted, stateLock, safeDirs, ctlVars, safeSite, repoVars,
                   result, ops, lastUpToDate, cycle, budget, listingFails, failSeq,
                   okCycles,
                   intPending, pullVars, aheadVars>>

\* What `git config --global --get-all safe.directory` can exit with: non-zero
\* when the key has no value, zero when it lists the entries, and, in a run where
\* the listing may fail, non-zero though the key has values.
listing_status(dirs, may_fail) ==
    IF dirs = <<>> THEN {FALSE}
    ELSE IF may_fail THEN {TRUE, FALSE}
    ELSE {TRUE}

\* if check.status.success() { if existing.lines().any(|l| l.trim() == path) ...
already_safe(success, dirs, path) ==
    success /\ \E i \in 1..Len(dirs) : dirs[i] = path

\* git config --global --get-all safe.directory
SafeCheck(w) ==
    /\ Running
    /\ pc[w] = "safe_check"
    /\ \E spawned \in BOOLEAN, success \in listing_status(safeDirs, listingFails) :
          IF ~spawned
          THEN SafeReturn(w, FALSE)
          ELSE IF already_safe(success, safeDirs, w)
          THEN SafeReturn(w, TRUE)
          ELSE /\ pc' = [pc EXCEPT ![w] = "safe_add"]
               /\ UNCHANGED <<safeLock, result, ops>>
    /\ UNCHANGED <<state, persisted, stateLock, safeDirs, ctlVars, safeSite, repoVars,
                   lastUpToDate, cycle, budget, listingFails, failSeq, okCycles,
                   intPending, pullVars, aheadVars>>

\* git config --global --add safe.directory <path>
SafeAdd(w) ==
    /\ Running
    /\ pc[w] = "safe_add"
    /\ \E ok \in BOOLEAN :
          /\ safeDirs' = IF ok THEN Append(safeDirs, w) ELSE safeDirs
          /\ SafeReturn(w, ok)
    /\ UNCHANGED <<state, persisted, stateLock, ctlVars, safeSite, repoVars,
                   lastUpToDate, cycle, budget, listingFails, failSeq, okCycles,
                   intPending, pullVars, aheadVars>>
\* ----------------------------------------------------------- repo_worker
\* sleep(initial_delay), and the sleep at the end of every cycle: the next cycle
\* starts with generate_git_project_path and set_safe_directory.
Wake(w) ==
    /\ Running
    /\ pc[w] \in {"initial_delay", "sleeping"}
    /\ cycle[w] < budget[w]
    /\ cycle' = [cycle EXCEPT ![w] = @ + 1]
    /\ pc' = [pc EXCEPT ![w] = "safe_lock"]
    /\ safeSite' = [safeSite EXCEPT ![w] = "cycle"]
    /\ UNCHANGED <<state, persisted, stateLock, safeLock, safeDirs, ctlVars, repoVars,
                   result, ops, lastUpToDate, budget, listingFails, failSeq, okCycles,
                   intPending,
                   pullVars, aheadVars>>

\* A comparison of the first 8 characters only.
is_remote_ahead_short(local_commit, remote_commit) == local_commit[1] # remote_commit[1]

\* A comparison that reports every remote as ahead.
is_remote_ahead_always(local_commit, remote_commit) == TRUE

\* is_remote_ahead: the two rev-parse outputs compared in full.
is_remote_ahead(local_commit, remote_commit) == local_commit # remote_commit

\* What handle_existing_repo does after a successful fetch that left the
\* remote-tracking branch at `tip`: <<outcome, operations run, new local HEAD>>.
existing_repo_after_fetch(local, tip, revOk, coOk, pullOk) ==
    IF ~revOk
    THEN <<"Failed", <<"fetch", "is_remote_ahead">>, local>>
    ELSE IF ~is_remote_ahead(local, tip)
    THEN <<"UpToDate", <<"fetch", "is_remote_ahead">>, local>>
    ELSE IF ~coOk
    THEN <<"Failed", <<"fetch", "is_remote_ahead", "checkout">>, local>>
    ELSE IF ~pullOk
    THEN <<"Failed", <<"fetch", "is_remote_ahead", "checkout", "pull">>, local>>
    ELSE <<"Updated", <<"fetch", "is_remote_ahead", "checkout", "pull">>, tip>>

\* Repository::open succeeded: handle_existing_repo.
HandleExistingRepo(w) ==
    /\ Running
    /\ pc[w] = "open"
    /\ pathExists[w]
    /\ \E fetchOk, revOk, coOk, pullOk \in BOOLEAN, tip \in Commits :
          IF ~fetchOk
          THEN /\ result' = [result EXCEPT ![w] = "Failed"]
               /\ ops' = [ops EXCEPT ![w] = Append(@, "fetch")]
               /\ UNCHANGED <<localHead, remoteHead>>
          ELSE LET r == existing_repo_after_fetch(localHead[w], tip, revOk, coOk, pullOk)
               IN  /\ result' = [result EXCEPT ![w] = r[1]]
                   /\ ops' = [ops EXCEPT ![w] = @ \o r[2]]
                   /\ remoteHead' = [remoteHead EXCEPT ![w] = tip]
                   /\ localHead' = [localHead EXCEPT ![w] = r[3]]
    /\ pc' = [pc EXCEPT ![w] = "reporting"]
    /\ UNCHANGED <<state, persisted, stateLock, safeLock, safeDirs, ctlVars, safeSite,
                   pathExists, lastUpToDate, cycle, budget, listingFails, failSeq, okCycles,
                   intPending, pullVars, aheadVars>>

\* Repository::open failed: handle_new_repo, up to its call of set_safe_directory
\* (clone_repo, get_id and set_file_ownership).
NewClone(w) ==
    /\ Running
    /\ pc[w] = "open"
    /\ ~pathExists[w]
    /\ \E cloneOk, ownOk \in BOOLEAN, tip \in Commits :
          IF ~cloneOk
          THEN /\ result' = [result EXCEPT ![w] = "Failed"]
               /\ ops' = [ops EXCEPT ![w] = Append(@, "clone")]
               /\ pc' = [pc EXCEPT ![w] = "reporting"]
               /\ UNCHANGED <<repoVars, safeSite>>
          ELSE /\ pathExists' = [pathExists EXCEPT ![w] = TRUE]
               /\ localHead' = [localHead EXCEPT ![w] = tip]
               /\ remoteHead' = [remoteHead EXCEPT ![w] = tip]
               /\ ops' = [ops EXCEPT ![w] = @ \o <<"clone", "set_ownership">>]
               /\ IF ownOk
                  THEN /\ pc' = [pc EXCEPT ![w] = "safe_lock"]
                       /\ safeSite' = [safeSite EXCEPT ![w] = "new"]
                       /\ UNCHANGED result
                  ELSE /\ pc' = [pc EXCEPT ![w] = "reporting"]
                       /\ result' = [result EXCEPT ![w] = "Failed"]
                       /\ UNCHANGED safeSite
    /\ UNCHANGED <<state, persisted, stateLock, safeLock, safeDirs, ctlVars,
                   lastUpToDate, cycle, budget, listingFails, failSeq, okCycles,
                   intPending, pullVars, aheadVars>>

\* handle_new_repo: checkout_branch after set_safe_directory.
NewCheckout(w) ==
    /\ Running
    /\ pc[w] = "new_checkout"
    /\ \E ok \in BOOLEAN :
          result' = [result EXCEPT ![w] = IF ok THEN "Cloned" ELSE "Failed"]
    /\ ops' = [ops EXCEPT ![w] = Append(@, "checkout")]
    /\ pc' = [pc EXCEPT ![w] = "reporting"]
    /\ UNCHANGED <<state, persisted, stateLock, safeLock, safeDirs, ctlVars, safeSite,
                   repoVars, lastUpToDate, cycle, budget, listingFails, failSeq, okCycles,
                   intPending, pullVars, aheadVars>>

\* state.lock().await
state_lock_free == stateLock = Free

\* let mut s = state.lock().await;
LockState(w) ==
    /\ Running
    /\ pc[w] = "reporting"
    /\ state_lock_free
    /\ stateLock' = ByWorker(w)
    /\ pc' = [pc EXCEPT ![w] = "fold_in"]
    /\ UNCHANGED <<state, persisted, safeLock, safeDirs, ctlVars, safeSite, repoVars,
                   result, ops, lastUpToDate, cycle, budget, listingFails, failSeq,
                   okCycles,
                   intPending, pullVars, aheadVars>>

\* A fold-in that counts the failed cycles too.
fold_in_counting_failures(s, res, err) ==
    IF res = "Failed"
    THEN log_error([s EXCEPT !.event_counter = @ + 1], err)
    ELSE update_state_wrapper([s EXCEPT !.event_counter = @ + 1])

\* The fold-in of a cycle's result: log_error on Err, else the counter is
\* incremented and update_state_wrapper called.
fold_in(s, res, err) ==
    IF res = "Failed"
    THEN log_error(s, err)
    ELSE update_state_wrapper([s EXCEPT !.event_counter = @ + 1])

\* A fold-in that leaves the lock held when the cycle did not fail.
lock_kept_after_success(w, res) == IF res = "Failed" THEN Free ELSE ByWorker(w)

\* A worker that keeps the lock over its end-of-cycle sleep.
lock_kept_while_sleeping(w, res) == ByWorker(w)

\* A fold-in that leaves the lock held when the cycle failed.
lock_kept_on_failure(w, res) == IF res = "Failed" THEN ByWorker(w) ELSE Free

\* drop(s)
lock_after_fold_in(w, res) == Free

\* A worker that returns when its cycle failed.
pc_returns_on_failure(res) == IF res = "Failed" THEN "returned" ELSE "sleeping"

\* The worker's loop continues with the sleep whatever the result.
pc_after_fold_in(res) == "sleeping"

FoldIn(w) ==
    /\ Running
    /\ pc[w] = "fold_in"
    /\ state' = fold_in(state, result[w], [w |-> w, n |-> failSeq + 1])
    /\ persisted' = state'
    /\ failSeq' = IF result[w] = "Failed" THEN failSeq + 1 ELSE failSeq
    /\ okCycles' = IF result[w] = "Failed" THEN okCycles ELSE okCycles + 1
    /\ stateLock' = lock_after_fold_in(w, result[w])
    /\ pc' = [pc EXCEPT ![w] = pc_after_fold_in(result[w])]
    /\ lastUpToDate' = [lastUpToDate EXCEPT ![w] = result[w] = "UpToDate"]
    /\ result' = [result EXCEPT ![w] = "None"]
    /\ ops' = [ops EXCEPT ![w] = <<>>]
    /\ UNCHANGED <<safeLock, safeDirs, ctlVars, safeSite, repoVars, cycle, budget, listingFails,
                   intPending, pullVars, aheadVars>>

Worker(w) ==
    \/ Wake(w)
    \/ SafeLock(w)
    \/ SafeCheck(w)
    \/ SafeAdd(w)
    \/ HandleExistingRepo(w)
    \/ NewClone(w)
    \/ NewCheckout(w)
    \/ LockState(w)
    \/ FoldIn(w)
\* ------------------------------------------------------------ async_main
BeforeWatch == {"load_config", "gen_state", "watch"}
MainLoop ==
    {"select", "reload_config", "reload_gen", "reload_lock", "reload_set",
     "reload_peek", "exit_lock", "exit_mark", "tick_lock", "tick_mark"}
\* sighup_watch and sigusr_watch have been called.
Watching == ctl \notin BeforeWatch

ghostVars == <<budget, listingFails, failSeq, okCycles, intPending>>
sharedVars == <<state, persisted, stateLock>>
signalVars == <<reloadPermit, exitPermit, ctrlcReady>>

\* get_config at startup: std::process::exit(0) when AppConfig::new fails.
LoadConfig ==
    /\ Running
    /\ ctl = "load_config"
    /\ \E ok \in BOOLEAN :
          IF ok
          THEN ctl' = "gen_state" /\ UNCHANGED exit
          ELSE exit' = "config" /\ UNCHANGED ctl
    /\ UNCHANGED <<sharedVars, safeLock, safeDirs, newState, signalVars, workerVars,
                   ghostVars, pullVars, aheadVars>>

\* generate_state (which saves what it returns), and the first update_state.
GenState ==
    /\ Running
    /\ ctl = "gen_state"
    /\ state' = generate_state(persisted)
    /\ persisted' = state'
    /\ ctl' = "watch"
    /\ UNCHANGED <<stateLock, safeLock, safeDirs, newState, signalVars, exit,
                   workerVars, ghostVars, pullVars, aheadVars>>

\* sighup_watch(reload.clone()); sigusr_watch(exit_graceful.clone());
Watch ==
    /\ Running
    /\ ctl = "watch"
    /\ ctl' = "load_creds"
    /\ UNCHANGED <<sharedVars, safeLock, safeDirs, newState, signalVars, exit,
                   workerVars, ghostVars, pullVars, aheadVars>>

\* get_git_credentials: on Err, log_error and std::process::exit(100).
LoadCreds ==
    /\ Running
    /\ ctl = "load_creds"
    /\ \E ok \in BOOLEAN :
          IF ok
          THEN /\ ctl' = "mark_init"
               /\ UNCHANGED <<state, persisted, exit>>
          ELSE /\ state' = log_error(state, [w |-> 0, n |-> 0])
               /\ persisted' = state'
               /\ exit' = "creds"
               /\ UNCHANGED ctl
    /\ UNCHANGED <<stateLock, safeLock, safeDirs, newState, signalVars, workerVars,
                   ghostVars, pullVars, aheadVars>>

\* The value a controller block stores: the status set, then update_state_wrapper.
mark(s, status) == update_state_wrapper([s EXCEPT !.status = status])

\* s.status = Status::Running; update_state_wrapper(...)
MarkInit ==
    /\ Running
    /\ ctl = "mark_init"
    /\ state' = mark(state, "Running")
    /\ persisted' = state'
    /\ ctl' = "spawning"
    /\ UNCHANGED <<stateLock, safeLock, safeDirs, newState, signalVars, exit,
                   workerVars, ghostVars, pullVars, aheadVars>>

\* spawn_git_workers: one spawn_local per credential, in shuffled order, and a
\* 3 second sleep after each.
SpawnWorker(w) ==
    /\ Running
    /\ ctl = "spawning"
    /\ pc[w] = "unspawned"
    /\ pc' = [pc EXCEPT ![w] = "initial_delay"]
    /\ UNCHANGED <<sharedVars, safeLock, safeDirs, ctlVars, safeSite, repoVars, result,
                   lastUpToDate, ops, cycle, ghostVars, pullVars, aheadVars>>

SpawnDone ==
    /\ Running
    /\ ctl = "spawning"
    /\ \A w \in Workers : pc[w] # "unspawned"
    /\ ctl' = "select"
    /\ UNCHANGED <<sharedVars, safeLock, safeDirs, newState, signalVars, exit,
                   workerVars, ghostVars, pullVars, aheadVars>>

\* select!: a branch that completes drops the other branches' futures, the
\* ctrl_c() future with the SIGINT it may have seen included.
\* _ = reload.notified() => sleep(1s); config = get_config();
SelectReload ==
    /\ Running
    /\ ctl = "select"
    /\ reloadPermit
    /\ reloadPermit' = FALSE
    /\ ctrlcReady' = FALSE
    /\ ctl' = "reload_config"
    /\ UNCHANGED <<sharedVars, safeLock, safeDirs, newState, exitPermit, exit,
                   workerVars, ghostVars, pullVars, aheadVars>>

ReloadConfig ==
    /\ Running
    /\ ctl = "reload_config"
    /\ \E ok \in BOOLEAN :
          IF ok
          THEN ctl' = "reload_gen" /\ UNCHANGED exit
          ELSE exit' = "config" /\ UNCHANGED ctl
    /\ UNCHANGED <<sharedVars, safeLock, safeDirs, newState, signalVars, workerVars,
                   ghostVars, pullVars, aheadVars>>

\* let new_state = generate_state(&config).await;  (not under the state lock)
ReloadGen ==
    /\ Running
    /\ ctl = "reload_gen"
    /\ newState' = generate_state(persisted)
    /\ persisted' = newState'
    /\ ctl' = "reload_lock"
    /\ UNCHANGED <<state, stateLock, safeLock, safeDirs, signalVars, exit, workerVars,
                   ghostVars, pullVars, aheadVars>>

\* let mut s = state.lock().await;  of the branch at position `at`
CtlLock(at, next) ==
    /\ Running
    /\ ctl = at
    /\ state_lock_free
    /\ stateLock' = ByController
    /\ ctl' = next
    /\ UNCHANGED <<state, persisted, safeLock, safeDirs, newState, signalVars, exit,
                   workerVars, ghostVars, pullVars, aheadVars>>

ReloadLock == CtlLock("reload_lock", "reload_set")

\* *s = new_state;
ReloadSet ==
    /\ Running
    /\ ctl = "reload_set"
    /\ state' = newState
    /\ okCycles' = 0
    /\ stateLock' = Free
    /\ ctl' = "reload_peek"
    /\ UNCHANGED <<persisted, safeLock, safeDirs, newState, signalVars, exit,
                   workerVars, budget, listingFails, failSeq, intPending, pullVars,
                   aheadVars>>

\* let _ = { state.lock().await.config.clone() };
ReloadPeek ==
    /\ Running
    /\ ctl = "reload_peek"
    /\ state_lock_free
    /\ ctl' = "select"
    /\ UNCHANGED <<sharedVars, safeLock, safeDirs, newState, signalVars, exit,
                   workerVars, ghostVars, pullVars, aheadVars>>

\* _ = exit_graceful.notified() =>
SelectExit ==
    /\ Running
    /\ ctl = "select"
    /\ exitPermit
    /\ exitPermit' = FALSE
    /\ ctrlcReady' = FALSE
    /\ ctl' = "exit_lock"
    /\ UNCHANGED <<sharedVars, safeLock, safeDirs, newState, reloadPermit, exit,
                   workerVars, ghostVars, pullVars, aheadVars>>

ExitLock == CtlLock("exit_lock", "exit_mark")

\* A graceful-exit branch that saves the state without the Stopped status.
exit_mark_unmarked(s) == update_state_wrapper(s)

\* What the graceful-exit branch stores and saves before std::process::exit(0).
exit_mark(s) == mark(s, "Stopped")

ExitMark ==
    /\ Running
    /\ ctl = "exit_mark"
    /\ state' = exit_mark(state)
    /\ persisted' = state'
    /\ stateLock' = Free
    /\ exit' = "graceful"
    /\ UNCHANGED <<safeLock, safeDirs, ctl, newState, signalVars, workerVars,
                   ghostVars, pullVars, aheadVars>>

\* _ = tokio::signal::ctrl_c() => exit_graceful.notify_one();
SelectCtrlC ==
    /\ Running
    /\ ctl = "select"
    /\ ctrlcReady
    /\ ctrlcReady' = FALSE
    /\ intPending' = FALSE
    /\ exitPermit' = TRUE
    /\ UNCHANGED <<sharedVars, safeLock, safeDirs, ctl, newState, reloadPermit, exit,
                   workerVars, budget, listingFails, failSeq, okCycles, pullVars,
                   aheadVars>>

\* _ = tokio::time::sleep(5s) =>  (the timer wins only while no other branch is ready)
SelectTick ==
    /\ Running
    /\ ctl = "select"
    /\ ~reloadPermit /\ ~exitPermit /\ ~ctrlcReady
    /\ ctl' = "tick_lock"
    /\ UNCHANGED <<sharedVars, safeLock, safeDirs, newState, signalVars, exit,
                   workerVars, ghostVars, pullVars, aheadVars>>

TickLock == CtlLock("tick_lock", "tick_mark")

TickMark ==
    /\ Running
    /\ ctl = "tick_mark"
    /\ state' = mark(state, "Running")
    /\ persisted' = state'
    /\ stateLock' = Free
    /\ ctl' = "select"
    /\ UNCHANGED <<safeLock, safeDirs, newState, signalVars, exit, workerVars,
                   ghostVars, pullVars, aheadVars>>

\* ---------------------------------------------------------------- signals
\* SIGHUP: sighup_watch's thread calls reload_watcher.notify_one().
SigHup ==
    /\ Running
    /\ Watching
    /\ ~reloadPermit
    /\ reloadPermit' = TRUE
    /\ UNCHANGED <<sharedVars, safeLock, safeDirs, ctl, newState, exitPermit,
                   ctrlcReady, exit, workerVars, ghostVars, pullVars, aheadVars>>

\* SIGUSR1: sigusr_watch's thread calls exit_watcher.notify_one().
SigUsr1 ==
    /\ Running
    /\ Watching
    /\ ~exitPermit
    /\ exitPermit' = TRUE
    /\ UNCHANGED <<sharedVars, safeLock, safeDirs, ctl, newState, reloadPermit,
                   ctrlcReady, exit, workerVars, ghostVars, pullVars, aheadVars>>

\* SIGINT once the main loop runs.  ctrl_c() listens from its first poll on, and
\* each select! makes a new one: a signal that arrives during a select! completes
\* that select!'s ctrl_c(); one that arrives during the reload branch's sleep is
\* dispatched while nobody listens; one that arrives during another part of a
\* branch body is dispatched either before the next select! polls its ctrl_c()
\* (to nobody) or after (to that ctrl_c()).
SigInt ==
    /\ Running
    /\ ctl \in MainLoop
    /\ ~intPending
    /\ intPending' = TRUE
    /\ \E held \in BOOLEAN :
          ctrlcReady' = CASE ctl = "select" -> TRUE
                          [] ctl = "reload_config" -> FALSE
                          [] OTHER -> held
    /\ UNCHANGED <<sharedVars, safeLock, safeDirs, ctl, newState, reloadPermit,
                   exitPermit, exit, workerVars, budget, listingFails, failSeq, okCycles,
                   pullVars, aheadVars>>

Startup ==
    \/ LoadConfig
    \/ GenState
    \/ Watch
    \/ LoadCreds
    \/ MarkInit
    \/ \E w \in Workers : SpawnWorker(w)
    \/ SpawnDone

HealthTick ==
    \/ SelectTick
    \/ TickLock
    \/ TickMark

Reload ==
    \/ SelectReload
    \/ ReloadConfig
    \/ ReloadGen
    \/ ReloadLock
    \/ ReloadSet
    \/ ReloadPeek

GracefulExit ==
    \/ SelectExit
    \/ ExitLock
    \/ ExitMark
    \/ SelectCtrlC

ControllerStep == Startup \/ HealthTick \/ Reload \/ GracefulExit

Signal == SigHup \/ SigUsr1 \/ SigInt

\* The daemon: the controller, the workers and the signals.
Next ==
    \/ ControllerStep
    \/ \E w \in Workers : Worker(w)
    \/ Signal

Spec == Init /\ [][Next]_vars

\* The daemon while no signal is delivered: startup, health ticks and the workers,
\* over more cycles.
CycleInit == Boot([w \in Workers |-> MaxLogCycles], FALSE)

CycleNext ==
    \/ Startup
    \/ HealthTick
    \/ \E w \in Workers : Worker(w)

CycleSpec == CycleInit /\ [][CycleNext]_vars

\* The daemon under the scheduling of the tokio runtime: a task that can run is
\* run (weak fairness of every step that waits for no lock), the timers fire, and
\* a tokio Mutex is granted in FIFO order, so a task waiting for a lock that is
\* released again and again acquires it (strong fairness of the acquisitions).
\* No signal is delivered and no state file is left from a previous run; the
\* first worker may start MaxFairCycles cycles and every other worker one fewer.
FairInit ==
    /\ Boot([w \in Workers |-> IF w = 1 THEN MaxFairCycles ELSE MaxFairCycles - 1], FALSE)
    /\ persisted = NoFile

WorkerRuns(w) ==
    \/ Wake(w)
    \/ SafeCheck(w)
    \/ SafeAdd(w)
    \/ HandleExistingRepo(w)
    \/ NewClone(w)
    \/ NewCheckout(w)
    \/ FoldIn(w)

Fairness ==
    /\ WF_vars(Startup)
    /\ WF_vars(SelectTick \/ TickMark)
    /\ SF_vars(TickLock)
    /\ \A w \in Workers : WF_vars(WorkerRuns(w))
    /\ \A w \in Workers : SF_vars(SafeLock(w))
    /\ \A w \in Workers : SF_vars(LockState(w))

FairSpec == FairInit /\ [][CycleNext]_vars /\ Fairness

\* The daemon, with no signal delivered, in a run where the listing of
\* safe.directory may fail though entries exist.
FaultInit ==
    /\ Boot([w \in Workers |-> IF w = 1 THEN MaxFairCycles ELSE MaxFairCycles - 1], TRUE)
    /\ persisted = NoFile

FaultSpec == FaultInit /\ [][CycleNext]_vars

\* The daemon with its reloads, under the scheduling of the tokio runtime: SIGHUP
\* is delivered at any time and any number of times, no other signal is; no state
\* file is left from a previous run; the clone of the first target is absent and
\* that of the second exists.  Fairness extends to the steps of the reload branch.
LockInit ==
    /\ Boot([w \in Workers |-> MaxCycles], FALSE)
    /\ persisted = NoFile
    /\ pathExists = [w \in Workers |-> w = 2]

LockNext ==
    \/ Startup
    \/ HealthTick
    \/ Reload
    \/ \E w \in Workers : Worker(w)
    \/ SigHup

LockFairness ==
    /\ Fairness
    /\ WF_vars(SelectReload \/ ReloadConfig \/ ReloadGen \/ ReloadSet)
    /\ SF_vars(ReloadLock \/ ReloadPeek)

LockSpec == LockInit /\ [][LockNext]_vars /\ LockFairness

\* ----------------------------------------------------------- pull_updates
\* What GitAction::Pull.execute() can give: Ok(Some(output)) whose stdout holds
\* "Already up to date.", or the message git prints when it has integrated new
\* commits into the branch (the completion marker), or neither; Ok(None); or an
\* Err of one of three kinds: Errors::GeneralError, a message containing
\* "safe directory", any other.
PullOk == {"already_up_to_date", "completion_marker", "other_output", "no_output"}
PullErr == {"GeneralError", "safe_directory", "other_error"}

\* handle_pull_output: Ok(true) only for an output without the marker.
handle_pull_output(output) ==
    IF output = "no_output" THEN "Ok(false)"
    ELSE IF output = "already_up_to_date" THEN "Ok(false)"
    ELSE "Ok(true)"

\* handle_pull_error: Some(Ok(true)), None (retry) or Some(Err(ea)).
handle_pull_error(e) ==
    IF e = "GeneralError" THEN "Ok(true)"
    ELSE IF e = "safe_directory" THEN "None"
    ELSE "Err"

\* A ceiling that is tested one attempt too late.
retries_exhausted_late(n) == n > MAX_RETRIES

\* if retries >= MAX_RETRIES
retries_exhausted(n) == n >= MAX_RETRIES

\* let mut retries = 0; loop {
PullStart ==
    /\ pullPc = "idle"
    /\ pullPc' = "pull"
    /\ UNCHANGED <<daemonVars, aheadVars, retries, errors, attempts, delays, remedies, pullResult>>

\* One pull_update.execute().await and the match on its result.
PullAttempt ==
    /\ pullPc = "pull"
    /\ \E out \in PullOk \cup PullErr :
          /\ attempts' = Append(attempts, out)
          /\ IF out \in PullOk
             THEN /\ pullResult' = handle_pull_output(out)
                  /\ pullPc' = "done"
                  /\ UNCHANGED errors
             ELSE IF retries_exhausted(retries)
             THEN /\ errors' = errors \o <<out, "max_retries">>
                  /\ pullResult' = "Err"
                  /\ pullPc' = "done"
             ELSE /\ errors' = Append(errors, out)
                  /\ IF handle_pull_error(out) = "None"
                     THEN pullPc' = "remediate" /\ UNCHANGED pullResult
                     ELSE pullPc' = "done" /\ pullResult' = handle_pull_error(out)
    /\ UNCHANGED <<daemonVars, aheadVars, retries, delays, remedies>>

\* handle_pull_error on a "safe directory" error: set_safe_directory and
\* fetch_updates, the error of either pushed on the error array; returns None.
Remediate ==
    /\ pullPc = "remediate"
    /\ \E safeOk, fetchOk \in BOOLEAN :
          errors' = errors \o (IF safeOk THEN <<>> ELSE <<"set_safe_directory">>)
                           \o (IF fetchOk THEN <<>> ELSE <<"fetch_updates">>)
    /\ remedies' = remedies + 1
    /\ pullPc' = "retry"
    /\ UNCHANGED <<daemonVars, aheadVars, retries, attempts, delays, pullResult>>

\* retries += 1; sleep(RETRY_DELAY_SECS).await;
RetryDelay ==
    /\ pullPc = "retry"
    /\ retries' = retries + 1
    /\ delays' = delays + 1
    /\ pullPc' = "pull"
    /\ UNCHANGED <<daemonVars, aheadVars, errors, attempts, remedies, pullResult>>

\* One invocation of pull_updates, over every sequence of results of the pulls
\* and of the remediations; the daemon is not running.
PullInit ==
    /\ Boot([w \in Workers |-> 0], FALSE)
    /\ persisted = NoFile
    /\ pathExists = [w \in Workers |-> FALSE]

PullNext == PullStart \/ PullAttempt \/ Remediate \/ RetryDelay

PullSpec == PullInit /\ [][PullNext]_vars

\* pull_updates as the runtime drives it: every git command it awaits returns
\* and every sleep it awaits ends, so the step it is at is taken.
PullFairSpec == PullInit /\ [][PullNext]_vars /\ WF_vars(PullNext)

\* ---------------------------------------------------------- is_remote_ahead
\* What git rev-parse writes on stdout: a commit identifier, followed by a
\* newline (written 0) or not.
CommitIds == (1..MaxIdPart) \X (1..MaxIdPart)
Stdouts == CommitIds \cup {id \o <<0>> : id \in CommitIds}

\* str::trim, on outputs that have no other whitespace than a final newline.
trim(s) == IF s # <<>> /\ s[Len(s)] = 0 THEN SubSeq(s, 1, Len(s) - 1) ELSE s

\* One call of is_remote_ahead: Err when a git command cannot be run, else the
\* comparison of the two trimmed outputs.
IsRemoteAhead ==
    /\ remote_ahead = "none"
    /\ \E ran \in BOOLEAN :
          remote_ahead' =
              IF ~ran THEN "Err"
              ELSE IF is_remote_ahead(trim(local_stdout), trim(remote_stdout))
              THEN "Ok(true)"
              ELSE "Ok(false)"
    /\ UNCHANGED <<daemonVars, pullVars, local_stdout, remote_stdout>>

\* is_remote_ahead on every pair of outputs; the daemon is not running.
AheadInit ==
    /\ BootDaemon([w \in Workers |-> 0], FALSE)
    /\ persisted = NoFile
    /\ pathExists = [w \in Workers |-> FALSE]
    /\ PullIdle
    /\ local_stdout \in Stdouts
    /\ remote_stdout \in Stdouts
    /\ remote_ahead = "none"

AheadNext == IsRemoteAhead

AheadSpec == AheadInit /\ [][AheadNext]_vars

\* ------------------------------------------------------------ properties
Has(seq, x) == \E i \in 1..Len(seq) : seq[i] = x
Recorded(k) == \E i \in 1..Len(state.error_log) : state.error_log[i].n = k

\* C1: in every reachable state the error log of the AppState holds at most
\* error_array_max_size (5) entries.
C1_ErrorLogBounded == Len(state.error_log) <= error_array_max_size

\* C2: eviction is FIFO: once six failures are recorded and the log has been
\* bounded again, the 1st failure is absent and the 6th is present.
C2_FifoEviction ==
    (failSeq = 6 /\ Len(state.error_log) <= error_array_max_size)
        => (~Recorded(1) /\ Recorded(6))

\* A cycle of worker w on an existing clone ends here (handle_existing_repo returns).
ExistingCycleEnds(w) == pc[w] = "open" /\ pc'[w] = "reporting" /\ pathExists[w]
\* ... from a local HEAD equal to the remote-tracking tip, with no upstream change.
NoChangeCycle(w) ==
    /\ ExistingCycleEnds(w)
    /\ localHead[w] = remoteHead[w]
    /\ remoteHead'[w] = remoteHead[w]
NoPullNoCheckout(w) == ~Has(ops'[w], "pull") /\ ~Has(ops'[w], "checkout")

C6_EventCounter ==
    /\ [](state.event_counter = okCycles)
    /\ [][\A w \in Workers :
            (pc[w] = "fold_in" /\ pc'[w] # "fold_in") =>
                state'.event_counter =
                    state.event_counter + (IF result[w] = "Failed" THEN 0 ELSE 1)]_vars

\* Both workers have folded a cycle in, one failed and one not.
C6_Witness ==
    /\ state.event_counter = 1
    /\ failSeq = 1
    /\ \A w \in Workers : pc[w] = "sleeping" /\ cycle[w] = 1

\* C9: when the process has ended on the graceful-exit path, the state file is
\* the AppState with status Stopped, and no fold-in or health tick was under way
\* that could have been saved after it.
C9_StoppedIsLastWrite ==
    exit = "graceful" =>
        /\ state.status = "Stopped"
        /\ persisted = state
        /\ \A w \in Workers : pc[w] # "fold_in"
        /\ ctl = "exit_mark"

\* The process ended gracefully while a worker had a result still to fold in.
C9_Witness ==
    /\ exit = "graceful"
    /\ \E w \in Workers : pc[w] = "reporting"
AllAttempts(kind) == \A i \in 1..Len(attempts) : attempts[i] = kind

\* C3: a pull that always fails with an error that is neither a safe-directory
\* rejection nor a GeneralError is attempted exactly MAX_RETRIES (3) times, with
\* a delay after each consumed attempt, and pull_updates then returns one failure.
C3_ThreeAttemptsThenFailure ==
    (pullPc = "done" /\ AllAttempts("other_error")) =>
        /\ Len(attempts) = MAX_RETRIES
        /\ delays >= MAX_RETRIES - 1
        /\ pullResult = "Err"

\* C4: when the first pull fails with a safe-directory rejection and the pull
\* retried after the remediation succeeds, pull_updates returns a success and the
\* remediation has not consumed a retry: retries is what it was before.
C4_RemediationIsFree ==
    (/\ pullPc = "done"
     /\ Len(attempts) = 2
     /\ attempts[1] = "safe_directory"
     /\ attempts[2] \in PullOk) =>
        /\ pullResult \in {"Ok(true)", "Ok(false)"}
        /\ retries = 0
InCycle(w) ==
    pc[w] \in {"safe_lock", "safe_check", "safe_add", "open", "new_checkout",
               "reporting", "fold_in"}
CyclesDone(w) == pc[w] = "sleeping" /\ cycle[w] = budget[w]
FailuresOf(w) == {i \in 1..Len(state.error_log) : state.error_log[i].w = w}

\* C7: whatever the other workers do, one of them failing on every cycle
\* included, a spawned worker completes cycle after cycle (every cycle the bound
\* of the run allows) unless the process exits, and each of its cycles that did
\* not fail adds one to the event counter.
C7_Isolation ==
    /\ \A w \in Workers : (pc[w] = "initial_delay") ~> (CyclesDone(w) \/ ~Running)
    /\ [][\A w \in Workers :
            (pc[w] = "fold_in" /\ pc'[w] # "fold_in" /\ result[w] # "Failed") =>
                state'.event_counter = state.event_counter + 1]_vars

\* Worker 1 has failed on every cycle and worker 2 has completed every cycle
\* without a failure.
C7_Witness ==
    /\ CyclesDone(1) /\ CyclesDone(2)
    /\ Len(state.error_log) = budget[1]
    /\ FailuresOf(1) = 1..budget[1]
    /\ budget[1] > 1
    /\ state.event_counter = budget[2]
    /\ budget[2] > 0

\* C8: the worker loop has no terminal state: a cycle that has a result to
\* report, a failure included, is folded into the AppState (a failure as the last
\* entry of the error log) and the worker goes to sleep; a sleeping worker starts
\* its next cycle (while the bound of the run allows one); and no step of a
\* worker ends the process.
C8_LoopContinues ==
    /\ \A w \in Workers : (pc[w] = "reporting") ~> (pc[w] = "sleeping" \/ ~Running)
    /\ \A w \in Workers :
          (pc[w] = "sleeping" /\ cycle[w] < budget[w]) ~> (pc[w] = "safe_lock" \/ ~Running)
    /\ [][\A w \in Workers :
            (pc[w] = "fold_in" /\ pc'[w] # "fold_in") =>
                /\ pc'[w] = "sleeping"
                /\ Running'
                /\ result[w] = "Failed" =>
                      /\ Len(state'.error_log) = Len(state.error_log) + 1
                      /\ state'.error_log[Len(state'.error_log)].w = w]_vars

\* A worker has started another cycle after a cycle of its own that failed.
C8_Witness ==
    \E w \in Workers :
        /\ pc[w] = "safe_lock"
        /\ cycle[w] = 2
        /\ FailuresOf(w) # {}
        /\ Running
GracefulExitRuns == ctl \in {"exit_lock", "exit_mark"}

\* C10: no graceful-exit trigger is lost: an interrupt that has been delivered
\* and not yet re-raised as the graceful-exit trigger is held by the pending
\* select! (or the graceful exit is already triggered or running), whatever the
\* controller was busy with when it arrived.
C10_TriggerNeverLost ==
    (intPending /\ Running /\ ~GracefulExitRuns) => (ctrlcReady \/ exitPermit)
\* The workers that run; the target of worker w is the w-th credential entry,
\* moved into the task when it is spawned.
RunningWorkers == IF Running THEN {w \in Workers : pc[w] # "unspawned"} ELSE {}
ReloadBody == {"reload_config", "reload_gen", "reload_lock", "reload_set", "reload_peek"}

\* C11: while the controller handles a reload trigger no step changes the set of
\* running workers: none is stopped, restarted or added.
C11_ReloadKeepsWorkers ==
    [][(ctl \in ReloadBody) => (RunningWorkers' = RunningWorkers)]_vars

\* C12: a process that ended at startup because the configuration or the
\* credentials could not be loaded has a non-zero exit code and has spawned no
\* worker.
C12_StartupFailureExitsNonZero ==
    (~Running /\ ctl \in {"load_config", "load_creds"}) =>
        /\ exit_code(exit) # 0
        /\ \A w \in Workers : pc[w] = "unspawned"

\* C13: a process that ended after the workers were spawned ended on the
\* graceful-exit path: status Stopped saved, exit code 0; in particular not while
\* handling a reload trigger.
C13_OnlyGracefulExit ==
    (~Running /\ ctl \in MainLoop) =>
        /\ exit = "graceful"
        /\ persisted.status = "Stopped"
        /\ exit_code(exit) = 0
        /\ ctl \notin ReloadBody
\* The commit identifier an output of rev-parse holds.
CommitOf(out) == <<out[1], out[2]>>

\* C14: is_remote_ahead returns true if and only if the full local identifier
\* differs from the full remote identifier, two identifiers that share their
\* first 8 characters included.
C14_FullComparison ==
    remote_ahead \in {"Ok(true)", "Ok(false)"} =>
        (remote_ahead = "Ok(true)" <=> CommitOf(local_stdout) # CommitOf(remote_stdout))

\* Two identifiers that differ after their first 8 characters were judged
\* different.
C14_Witness ==
    /\ remote_ahead = "Ok(true)"
    /\ local_stdout[1] = remote_stdout[1]
    /\ local_stdout[2] # remote_stdout[2]
LastAttempt == attempts[Len(attempts)]

\* C15: a pull that completes without error is classified by its output: it is
\* 'changed' (Ok(true)) exactly when the output holds the completion marker, and
\* 'no new data' (Ok(false)), not an error, when the output holds no completion
\* marker or when there is no output.
C15_ClassifiedByMarker ==
    (pullPc = "done" /\ attempts # <<>> /\ LastAttempt \in PullOk) =>
        /\ pullResult \in {"Ok(true)", "Ok(false)"}
        /\ pullResult = "Ok(true)" <=> LastAttempt = "completion_marker"
\* The operations of the Cloning branch, after the set_safe_directory that opens
\* every cycle of repo_worker.
CloningOps(w) == IF ops[w] # <<>> /\ Head(ops[w]) = "ensure_safe" THEN Tail(ops[w]) ELSE ops[w]

\* C16: a cycle on an absent path in which every step succeeds has run, in this
\* order, clone, set ownership, ensure_safe, one fetch and checkout; its fold-in
\* adds one to the event counter and leaves the error log unchanged.
C16_CloningCycle ==
    [][\A w \in Workers :
          (pc[w] = "fold_in" /\ pc'[w] # "fold_in" /\ result[w] = "Cloned") =>
              /\ CloningOps(w) = <<"clone", "set_ownership", "ensure_safe", "fetch", "checkout">>
              /\ state'.event_counter = state.event_counter + 1
              /\ state'.error_log = state.error_log]_vars
\* The tasks inside a read-modify-write of the AppState: a worker between its
\* lock and the end of its fold-in; the controller while it marks a status, and,
\* in a reload, from generate_state (which reads the saved AppState and resets
\* it) to the assignment of the result to the shared AppState.
Mutators ==
    {ByWorker(w) : w \in {x \in Workers : pc[x] = "fold_in"}}
        \cup (IF ctl \in {"tick_mark", "exit_mark", "reload_lock", "reload_set"}
              THEN {ByController} ELSE {})

\* C17: mutations of the AppState are atomic with respect to each other: at any
\* time at most one task is inside a read-modify-write of it.
C17_AtomicMutations == Cardinality(Mutators) <= 1
InSafeDirSection(w) == pc[w] \in {"safe_check", "safe_add"}

\* C19: at most one task is between the listing and the registration of
\* set_safe_directory, and that task holds SAFE_DIR_LOCK.
C19_EnsureSafeExclusive ==
    /\ Cardinality({w \in Workers : InSafeDirSection(w)}) <= 1
    /\ \A w \in Workers : InSafeDirSection(w) <=> safeLock = ByWorker(w)

\* A worker is about to register its path while the other waits for the lock.
C19_Witness ==
    \E w, x \in Workers :
        /\ pc[w] = "safe_add"
        /\ pc[x] = "safe_lock"

\* C20: set_safe_directory is idempotent: no step of it registers a path that is
\* already registered, so that no path is registered more than once.
C20_NoDuplicateSafeDirs ==
    \A i, j \in 1..Len(safeDirs) : safeDirs[i] = safeDirs[j] => i = j
\* The positions of operation x among the operations seq.
At(seq, x) == {i \in 1..Len(seq) : seq[i] = x}
\* The remote was found ahead in the cycle whose operations are seq: an
\* operation follows is_remote_ahead.
FoundAhead(seq) == \E i \in At(seq, "is_remote_ahead") : i < Len(seq)

\* C21: a cycle on an existing path runs ensure_safe, then fetch, then
\* is_remote_ahead; when the remote is ahead the pull comes first and the
\* checkout after the pull; when it is not ahead the outcome is UpToDate and no
\* further git operation runs.
C21_ExistingCycle ==
    [][\A w \in Workers :
          ExistingCycleEnds(w) =>
              /\ SubSeq(ops'[w], 1, 2) = <<"ensure_safe", "fetch">>
              /\ Len(ops'[w]) > 2 => ops'[w][3] = "is_remote_ahead"
              /\ FoundAhead(ops'[w]) => ops'[w][4] = "pull"
              /\ \A c \in At(ops'[w], "checkout") : \E p \in At(ops'[w], "pull") : p < c
              /\ result'[w] = "UpToDate" =>
                    ops'[w] = <<"ensure_safe", "fetch", "is_remote_ahead">>
              /\ result'[w] = "Updated" =>
                    ops'[w] = <<"ensure_safe", "fetch", "is_remote_ahead", "pull", "checkout">>]_vars

\* C22: when a step of the Cloning branch has failed (clone, set ownership,
\* ensure_safe or checkout), the failure is recorded as the failure of that
\* cycle, and the path is still absent, so that the worker's next cycle runs the
\* Cloning branch again.
C22_CloningRetried ==
    [][\A w \in Workers :
          (pc[w] = "fold_in" /\ pc'[w] # "fold_in" /\ result[w] = "Failed"
              /\ Has(ops[w], "clone")) =>
                /\ state'.error_log = Append(state.error_log, [w |-> w, n |-> failSeq + 1])
                /\ ~pathExists'[w]]_vars

\* C23: whenever the pull attempt that ends pull_updates failed with a
\* GeneralError (a generic, non-critical error), pull_updates returns a successful
\* pull that changed data, Ok(true), whatever the number of failed attempts before
\* it in the same invocation.
C23_GeneralErrorIsSuccess ==
    (pullPc = "done" /\ attempts # <<>> /\ LastAttempt = "GeneralError") =>
        pullResult = "Ok(true)"

\* C24: pull_updates returns for every sequence of results of the pulls and of
\* the remediations, after at most MAX_RETRIES + 1 (4) pull attempts; when every
\* pull is rejected for an unsafe directory it returns a failure after exactly
\* that many attempts, whether the remediations fail or not.
C24_BoundedAttempts ==
    /\ [](Len(attempts) <= MAX_RETRIES + 1)
    /\ []((pullPc = "done" /\ AllAttempts("safe_directory")) =>
              (pullResult = "Err" /\ Len(attempts) = MAX_RETRIES + 1))
    /\ <>(pullPc = "done")

\* Every pull was rejected for an unsafe directory and both steps of every
\* remediation failed.
C24_Witness ==
    /\ pullPc = "done"
    /\ AllAttempts("safe_directory")
    /\ remedies = MAX_RETRIES
    /\ Len(SelectSeq(errors, LAMBDA e : e = "set_safe_directory")) = MAX_RETRIES
    /\ Len(SelectSeq(errors, LAMBDA e : e = "fetch_updates")) = MAX_RETRIES

\* C25: no step of the process decreases the event counter of the AppState,
\* whatever the interleaving of worker cycles, health ticks and reloads.
C25_CounterNeverDecreases ==
    [][state'.event_counter >= state.event_counter]_vars

\* C26: when a state file exists at startup, the AppState generated from it
\* resumes its event counter and its error log: both equal the saved ones.
C26_StateResumed ==
    [][(ctl = "gen_state" /\ ctl' = "watch" /\ persisted # NoFile) =>
          /\ state'.event_counter = persisted.event_counter
          /\ state'.error_log = persisted.error_log]_vars

\* The AppState exists and the controller is not between the save and the
\* assignment of a reload.
Settled == ctl \notin {"load_config", "gen_state", "reload_lock", "reload_set"}

\* C27: the state file follows every mutation: whenever nobody holds the state
\* lock, the saved state equals the AppState in memory, after any interleaving of
\* fold-ins, health ticks, reloads and the shutdown marking.
C27_SavedAfterEveryMutation ==
    (stateLock = Free /\ Settled) => persisted = state

\* The positions where a task waits for a lock: a worker for SAFE_DIR_LOCK or for
\* the state lock, the controller for the state lock.
WaitsForLock(w) == pc[w] \in {"safe_lock", "reporting"}
CtlWaitsForLock == ctl \in {"tick_lock", "exit_lock", "reload_lock", "reload_peek"}

\* No task holds both locks; a task that holds a lock is inside the section the
\* lock protects, where it waits for no lock, and leaves it by releasing the lock.
NoHoldAndWait ==
    /\ safeLock # ByController
    /\ \A w \in Workers :
          /\ ~(stateLock = ByWorker(w) /\ safeLock = ByWorker(w))
          /\ safeLock = ByWorker(w) => pc[w] \in {"safe_check", "safe_add"}
          /\ stateLock = ByWorker(w) => pc[w] = "fold_in"
    /\ stateLock = ByController => ctl \in {"reload_set", "tick_mark", "exit_mark"}

\* C28: the daemon is deadlock-free on the state lock and SAFE_DIR_LOCK: no task
\* holds both, no task waits for a lock while it holds one (the one it waits for
\* included), and a worker or the controller that waits for a lock eventually
\* acquires it, unless the process ends.
C28_DeadlockFree ==
    /\ []NoHoldAndWait
    /\ \A w \in Workers : WaitsForLock(w) ~> (~WaitsForLock(w) \/ ~Running)
    /\ CtlWaitsForLock ~> (~CtlWaitsForLock \/ ~Running)

\* Both locks are held, by different tasks, and a third task waits: the
\* controller holds the state lock in a reload, a worker waits for it, the other
\* worker holds SAFE_DIR_LOCK.
C28_Witness ==
    /\ stateLock = ByController
    /\ ctl = "reload_set"
    /\ \E w, x \in Workers :
          /\ pc[w] = "reporting"
          /\ safeLock = ByWorker(x)
====
